---------------------------- MODULE Spec2Model ----------------------------
(***************************************************************************)
(* SimuOrg frontend: the session (AuthContext), the axios gateway client   *)
(* (services/api), and the pages that fetch or submit through them         *)
(* (Dashboard, App, UploadData, Login, Navbar).                            *)
(*                                                                         *)
(* JavaScript runs each handler and each promise continuation to           *)
(* completion on one thread; a handler suspends only at an `await`.  The   *)
(* model has one action per handler (its synchronous part up to the        *)
(* await) and one per continuation.  A continuation that makes two state   *)
(* writes (loadData: setEmployees/setError, then setLoading) is split at   *)
(* the write, and while it is between its writes (`run`) nothing else      *)
(* runs.                                                                   *)
(***************************************************************************)
EXTENDS Naturals, Sequences, FiniteSets, TLC

VARIABLES
    user,         \* AuthContext: the logged-in user profile, or None
    token,        \* AuthContext: the session's bearer token, or None
    store,        \* localStorage['token'], or None
    page,         \* the page component the router has mounted
    employees,    \* Dashboard / App: useState([])
    loading,      \* Dashboard / App: useState(true)
    error,        \* Dashboard: useState(''), App: useState(null)
    file,         \* UploadData: useState(null)
    status,       \* UploadData: useState('')
    loginError,   \* Login: const [error, setError] = useState('')
    net,          \* requests in flight
    nextId,       \* id of the next request
    run,          \* the continuation that is between two of its writes
    staleWrites,  \* setters that were called on an unmounted instance
    calls,        \* per view: the starts on the mounted instance (history)
    ev            \* the last handler or continuation that ran (history)

vars == << user, token, store, page, employees, loading, error, file,
           status, loginError, net, nextId, run, staleWrites, calls, ev >>

session == << user, token, store >>
fetchView == << employees, loading, error >>
uploadView == << file, status >>

-----------------------------------------------------------------------------
(* Bounds of the model. *)

\* requests issued in one behaviour
MaxReq == 3

-----------------------------------------------------------------------------
(* Values. *)

None == "none"
Users == {"ann"}
Tokens == {"t1", "t2"}
Files == {"a.csv"}
\* res.data of GET /sim/test-data: a sequence of records
Payloads == { <<>>, << [id |-> 1] >> }

Pages == {"dashboard", "app", "upload", "login", "simulation"}
\* the pages with a fetch on mount
FetchPages == {"dashboard", "app"}
\* the pages that render <Navbar />
NavbarPages == {"dashboard", "upload", "simulation"}

\* how the server (a black box) answers a request
Outcomes == {"ok", "non2xx", "network"}

MsgDashboard == "Failed to load employee data."
MsgApp == "Failed to connect to Backend (Is it running?)"
MsgInvalid == "Invalid credentials. Please try again."
MsgUploading == "Uploading..."
MsgUploadOk == "Upload successful!"
MsgUploadFailed == "Upload failed. Please try again."
MsgUploadError == "Error connecting to the server."

Idle == [pc |-> "idle", live |-> FALSE]
NoCalls == [n |-> 0, last |-> 0, out |-> None, val |-> <<>>]
\* data: the body of the response a continuation received, when it read it
Event(op, id, out) == [op |-> op, id |-> id, out |-> out, data |-> << >>]

-----------------------------------------------------------------------------
(* Session State: context/AuthContext, consumed through hooks/useAuth.     *)
(* The provider is described by the specification, sections 3, 4.1 and 9:  *)
(* login and logout change user, token and the stored token in one step;   *)
(* only the token is persisted, so a restart restores the token and has    *)
(* nothing to rebuild the user from, and isAuthenticated then means "has   *)
(* a token".                                                               *)

\* login that does not persist the token
loginNotPersisted(u, t) ==
    /\ user' = u
    /\ token' = t
    /\ store' = store

login(u, t) ==
    /\ user' = u
    /\ token' = t
    /\ store' = t

logout ==
    /\ user' = None
    /\ token' = None
    /\ store' = None

Rehydrate ==
    /\ user' = None
    /\ token' = store
    /\ store' = store

isAuthenticated == token # None

-----------------------------------------------------------------------------
(* Gateway client: services/api.                                           *)

\* `Bearer ${token}`
Bearer(t) == << "Bearer", t >>

\* a request without an Authorization header
NoHeader == << >>

\* Interceptor without its `if (token)`
InterceptorUnguarded(ls) == Bearer(ls)

\* the request interceptor: the Authorization header it leaves on a request,
\* given localStorage.getItem('token')
Interceptor(ls) == IF ls # None THEN Bearer(ls) ELSE NoHeader

\* the operations that go through the axios instance API
GatewayOps == {"fetchTestData", "loginUser", "registerUser"}

\* baseURL of the axios instance API
BaseURL == "http://localhost:8000/api"

\* the origin and prefix written out in App.jsx and in UploadData
AppBaseURL == "http://127.0.0.1:8000/api"
UploadBaseURL == "http://localhost:8000/api"

\* a request as it leaves the client; live: the page instance that awaits
\* it is still mounted
Request(op, base, hdr) ==
    [id |-> nextId, op |-> op, live |-> TRUE, base |-> base, auth |-> hdr]

\* API.get / API.post: the interceptor runs on the outgoing config
API(op, ls) == Request(op, BaseURL, Interceptor(ls))

fetchTestData(ls) == API("fetchTestData", ls)
loginUser(ls) == API("loginUser", ls)
registerUser(ls) == API("registerUser", ls)

\* App.jsx calls axios.get on the default instance: no interceptor
AppGet == Request("appGet", AppBaseURL, NoHeader)

\* UploadData calls window.fetch: no interceptor
UploadFetch == Request("upload", UploadBaseURL, NoHeader)

CanSend == nextId <= MaxReq

Send(r) ==
    /\ net' = net \cup {r}
    /\ nextId' = nextId + 1

-----------------------------------------------------------------------------
(* Initial state: the document is loaded, nothing is mounted yet.          *)

Init ==
    /\ user = None
    /\ token = None
    /\ store = None
    /\ page = None
    /\ employees = << >>
    /\ loading = TRUE
    /\ error = ""
    /\ file = None
    /\ status = ""
    /\ loginError = ""
    /\ net = {}
    /\ nextId = 1
    /\ run = Idle
    /\ staleWrites = {}
    /\ calls = NoCalls
    /\ ev = Event("init", 0, None)

-----------------------------------------------------------------------------
(* Mounting a page: every useState starts from its initial value, and the  *)
(* useEffect of Dashboard and of App dispatches the fetch.                 *)

\* Dashboard: useState('') ; App: useState(null)
InitialError(p) == IF p = "app" THEN None ELSE ""

\* MountRequest with Dashboard calling axios on the default instance
MountRequestBare(p, ls) ==
    IF p = "dashboard"
      THEN Request("fetchTestData", BaseURL, NoHeader)
      ELSE AppGet

\* the request the mount effect of page p sends
MountRequest(p, ls) ==
    IF p = "dashboard" THEN fetchTestData(ls) ELSE AppGet

\* the requests in S once the page instance awaiting them is unmounted
Orphaned(S) == {[r EXCEPT !.live = FALSE] : r \in S}

Mount(p) ==
    /\ p \in FetchPages => CanSend
    /\ page' = p
    /\ employees' = << >>
    /\ loading' = TRUE
    /\ error' = InitialError(p)
    /\ file' = None
    /\ status' = ""
    /\ loginError' = ""
    /\ calls' = IF p \in FetchPages
                   THEN [NoCalls EXCEPT !.n = 1, !.last = nextId]
                   ELSE NoCalls

\* the router replaces the mounted page by page p
Navigate(p) ==
    /\ run = Idle
    /\ p # page
    /\ Mount(p)
    /\ IF p \in FetchPages
          THEN /\ net' = Orphaned(net) \cup {MountRequest(p, store)}
               /\ nextId' = nextId + 1
          ELSE /\ net' = Orphaned(net)
               /\ UNCHANGED nextId
    /\ ev' = Event("navigate", 0, None)
    /\ UNCHANGED << session, staleWrites, run >>

\* the user reloads the document: memory is lost, responses still in flight
\* have nobody to go to, the session is rehydrated and the page mounts again
Reload ==
    /\ run = Idle
    /\ page # None
    /\ Rehydrate
    /\ Mount(page)
    /\ IF page \in FetchPages
          THEN /\ net' = {MountRequest(page, store)}
               /\ nextId' = nextId + 1
          ELSE /\ net' = {}
               /\ UNCHANGED nextId
    /\ ev' = Event("reload", 0, None)
    /\ UNCHANGED << staleWrites, run >>

-----------------------------------------------------------------------------
(* Dashboard.loadData and the App effect: the continuation of the fetch.   *)
(* The setters of an unmounted instance are still called; React ignores    *)
(* them, and the model records the call in staleWrites.                    *)

setEmployees(live, v) ==
    /\ IF live
          THEN employees' = v /\ UNCHANGED staleWrites
          ELSE staleWrites' = staleWrites \cup {"setEmployees"}
               /\ UNCHANGED employees
    /\ UNCHANGED << loading, error >>

setError(live, msg) ==
    /\ IF live
          THEN error' = msg /\ UNCHANGED staleWrites
          ELSE staleWrites' = staleWrites \cup {"setError"}
               /\ UNCHANGED error
    /\ UNCHANGED << employees, loading >>

setLoading(live, b) ==
    /\ IF live
          THEN loading' = b /\ UNCHANGED staleWrites
          ELSE staleWrites' = staleWrites \cup {"setLoading"}
               /\ UNCHANGED loading
    /\ UNCHANGED << employees, error >>

\* what the history keeps of the settlement of request r
Settled(r, o, v) ==
    IF r.id = calls.last THEN [calls EXCEPT !.out = o, !.val = v] ELSE calls

\* loadData behind a response interceptor that logs out on a failed status
loadDataLogout(r, o, v) ==
    /\ run = Idle
    /\ r \in net
    /\ r.op = "fetchTestData"
    /\ net' = net \ {r}
    /\ IF o = "ok"
          THEN setEmployees(r.live, v)
          ELSE setError(r.live, MsgDashboard)
    /\ IF o = "non2xx" THEN logout ELSE UNCHANGED session
    /\ run' = [pc |-> "setLoading", live |-> r.live]
    /\ calls' = Settled(r, o, v)
    /\ ev' = Event("loadData", r.id, o)
    /\ UNCHANGED << page, uploadView, loginError, nextId >>

\* try { res = await fetchTestData(); setEmployees(res.data) }
\* catch { setError('Failed to load employee data.') }, up to the finally
loadData(r, o, v) ==
    /\ run = Idle
    /\ r \in net
    /\ r.op = "fetchTestData"
    /\ net' = net \ {r}
    /\ IF o = "ok"
          THEN setEmployees(r.live, v)
          ELSE setError(r.live, MsgDashboard)
    /\ run' = [pc |-> "setLoading", live |-> r.live]
    /\ calls' = Settled(r, o, v)
    /\ ev' = Event("loadData", r.id, o)
    /\ UNCHANGED << session, page, uploadView, loginError, nextId >>

\* .then(response => { setEmployees(response.data); ...
\* .catch(err => { setError("Failed to connect to Backend ..."); ...
AppEffect(r, o, v) ==
    /\ run = Idle
    /\ r \in net
    /\ r.op = "appGet"
    /\ net' = net \ {r}
    /\ IF o = "ok"
          THEN setEmployees(r.live, v)
          ELSE setError(r.live, MsgApp)
    /\ run' = [pc |-> "setLoading", live |-> r.live]
    /\ calls' = Settled(r, o, v)
    /\ ev' = Event("appEffect", r.id, o)
    /\ UNCHANGED << session, page, uploadView, loginError, nextId >>

\* Finally without its setLoading(false)
FinallySkipped ==
    /\ run.pc = "setLoading"
    /\ run' = Idle
    /\ ev' = [ev EXCEPT !.op = "finally"]
    /\ UNCHANGED << session, page, fetchView, uploadView, loginError,
                    net, nextId, calls, staleWrites >>

\* finally { setLoading(false) } of loadData; the setLoading(false) that
\* ends both callbacks of the App effect
Finally ==
    /\ run.pc = "setLoading"
    /\ setLoading(run.live, FALSE)
    /\ run' = Idle
    /\ ev' = [ev EXCEPT !.op = "finally"]
    /\ UNCHANGED << session, page, uploadView, loginError, net, nextId,
                    calls >>

-----------------------------------------------------------------------------
(* UploadData.                                                             *)

\* onChange={(e) => setFile(e.target.files[0])}; a cancelled dialog gives
\* no file
SelectFile(f) ==
    /\ run = Idle
    /\ page = "upload"
    /\ file' = f
    /\ ev' = Event("selectFile", 0, None)
    /\ UNCHANGED << session, page, fetchView, status, loginError, net,
                    nextId, run, staleWrites, calls >>

\* NoFile without the test
NoFileUnchecked(f) == FALSE

\* if (!file) return;
NoFile(f) == f = None

\* handleUpload up to its await
handleUpload ==
    /\ run = Idle
    /\ page = "upload"
    /\ IF NoFile(file)
          THEN /\ ev' = Event("handleUpload", 0, None)
               /\ UNCHANGED << status, net, nextId, calls >>
          ELSE /\ CanSend
               /\ status' = MsgUploading
               /\ Send(UploadFetch)
               /\ calls' = [calls EXCEPT !.n = @ + 1, !.last = nextId,
                                         !.out = None]
               /\ ev' = Event("handleUpload", nextId, None)
    /\ UNCHANGED << session, page, fetchView, file, loginError, run,
                    staleWrites >>

\* UploadStatus without the res.ok test
UploadStatusUnchecked(o) ==
    CASE o \in {"ok", "non2xx"} -> MsgUploadOk
      [] OTHER -> MsgUploadError

\* the status the continuation of handleUpload sets: res.ok, !res.ok, catch
UploadStatus(o) ==
    CASE o = "ok" -> MsgUploadOk
      [] o = "non2xx" -> MsgUploadFailed
      [] OTHER -> MsgUploadError

setStatus(live, s) ==
    IF live
      THEN status' = s /\ UNCHANGED staleWrites
      ELSE staleWrites' = staleWrites \cup {"setStatus"} /\ UNCHANGED status

\* handleUpload after its await
handleUploadSettled(r, o) ==
    /\ run = Idle
    /\ r \in net
    /\ r.op = "upload"
    /\ net' = net \ {r}
    /\ setStatus(r.live, UploadStatus(o))
    /\ calls' = Settled(r, o, << >>)
    /\ ev' = Event("handleUploadSettled", r.id, o)
    /\ UNCHANGED << session, page, fetchView, file, loginError, nextId,
                    run >>

-----------------------------------------------------------------------------
(* Login.                                                                  *)

\* handleSubmit without its setError('')
handleSubmitKeepsError ==
    /\ run = Idle
    /\ page = "login"
    /\ CanSend
    /\ UNCHANGED loginError
    /\ Send(loginUser(store))
    /\ calls' = [calls EXCEPT !.n = @ + 1, !.last = nextId, !.out = None]
    /\ ev' = Event("handleSubmit", nextId, None)
    /\ UNCHANGED << session, page, fetchView, uploadView, run,
                    staleWrites >>

\* handleSubmit up to its await: setError(''), then loginUser(...)
handleSubmit ==
    /\ run = Idle
    /\ page = "login"
    /\ CanSend
    /\ loginError' = ""
    /\ Send(loginUser(store))
    /\ calls' = [calls EXCEPT !.n = @ + 1, !.last = nextId, !.out = None]
    /\ ev' = Event("handleSubmit", nextId, None)
    /\ UNCHANGED << session, page, fetchView, uploadView, run,
                    staleWrites >>

\* Login's setError
setLoginError(live, msg) ==
    IF live
      THEN loginError' = msg /\ UNCHANGED staleWrites
      ELSE staleWrites' = staleWrites \cup {"Login.setError"}
           /\ UNCHANGED loginError

\* handleSubmitResolved reading a field the response does not have
handleSubmitResolvedNoToken(r, u, t) ==
    /\ run = Idle
    /\ r \in net
    /\ r.op = "loginUser"
    /\ net' = net \ {r}
    /\ login(u, None)
    /\ calls' = Settled(r, "ok", << >>)
    /\ ev' = [Event("handleSubmitResolved", r.id, "ok")
                 EXCEPT !.data = << u, t >>]
    /\ UNCHANGED << page, fetchView, uploadView, loginError, nextId,
                    run, staleWrites >>

\* handleSubmit after its await resolved with {user: u, access_token: t}
handleSubmitResolved(r, u, t) ==
    /\ run = Idle
    /\ r \in net
    /\ r.op = "loginUser"
    /\ net' = net \ {r}
    /\ login(u, t)
    /\ calls' = Settled(r, "ok", << >>)
    /\ ev' = [Event("handleSubmitResolved", r.id, "ok")
                 EXCEPT !.data = << u, t >>]
    /\ UNCHANGED << page, fetchView, uploadView, loginError, nextId,
                    run, staleWrites >>

\* handleSubmitRejected with a catch block that also ends the session
handleSubmitRejectedLogout(r, o) ==
    /\ run = Idle
    /\ r \in net
    /\ r.op = "loginUser"
    /\ o # "ok"
    /\ net' = net \ {r}
    /\ setLoginError(r.live, MsgInvalid)
    /\ logout
    /\ calls' = Settled(r, o, << >>)
    /\ ev' = Event("handleSubmitRejected", r.id, o)
    /\ UNCHANGED << page, fetchView, uploadView, nextId, run >>

\* handleSubmitRejected with a catch block that sends the call again
handleSubmitRejectedRetry(r, o) ==
    /\ run = Idle
    /\ r \in net
    /\ r.op = "loginUser"
    /\ o # "ok"
    /\ CanSend
    /\ net' = (net \ {r}) \cup {loginUser(store)}
    /\ nextId' = nextId + 1
    /\ setLoginError(r.live, MsgInvalid)
    /\ calls' = Settled(r, o, << >>)
    /\ ev' = Event("handleSubmitRejected", r.id, o)
    /\ UNCHANGED << session, page, fetchView, uploadView, run >>

\* handleSubmit after its await rejected: the catch block
handleSubmitRejected(r, o) ==
    /\ run = Idle
    /\ r \in net
    /\ r.op = "loginUser"
    /\ o # "ok"
    /\ net' = net \ {r}
    /\ setLoginError(r.live, MsgInvalid)
    /\ calls' = Settled(r, o, << >>)
    /\ ev' = Event("handleSubmitRejected", r.id, o)
    /\ UNCHANGED << session, page, fetchView, uploadView, nextId, run >>

-----------------------------------------------------------------------------
(* Navbar: the Logout button is rendered only when isAuthenticated.        *)

\* Logout that strips the credential from the requests still in flight
LogoutStripping ==
    /\ run = Idle
    /\ page \in NavbarPages
    /\ isAuthenticated
    /\ logout
    /\ net' = {[r EXCEPT !.auth = NoHeader] : r \in net}
    /\ ev' = Event("logout", 0, None)
    /\ UNCHANGED << page, fetchView, uploadView, loginError,
                    nextId, run, staleWrites, calls >>

Logout ==
    /\ run = Idle
    /\ page \in NavbarPages
    /\ isAuthenticated
    /\ logout
    /\ ev' = Event("logout", 0, None)
    /\ UNCHANGED << page, fetchView, uploadView, loginError, net,
                    nextId, run, staleWrites, calls >>

-----------------------------------------------------------------------------
(* registerUser is exported by services/api; no page awaits its result.    *)

RegisterUser ==
    /\ run = Idle
    /\ page # None
    /\ CanSend
    /\ Send(registerUser(store))
    /\ ev' = Event("registerUser", nextId, None)
    /\ UNCHANGED << session, page, fetchView, uploadView, loginError,
                    run, staleWrites, calls >>

RegisterSettled(r, o) ==
    /\ run = Idle
    /\ r \in net
    /\ r.op = "registerUser"
    /\ net' = net \ {r}
    /\ ev' = Event("registerSettled", r.id, o)
    /\ UNCHANGED << session, page, fetchView, uploadView, loginError,
                    nextId, run, staleWrites, calls >>

-----------------------------------------------------------------------------

Next ==
    \/ \E p \in Pages : Navigate(p)
    \/ Reload
    \/ \E r \in net, v \in Payloads : loadData(r, "ok", v)
    \/ \E r \in net, o \in Outcomes \ {"ok"} : loadData(r, o, << >>)
    \/ \E r \in net, v \in Payloads : AppEffect(r, "ok", v)
    \/ \E r \in net, o \in Outcomes \ {"ok"} : AppEffect(r, o, << >>)
    \/ Finally
    \/ \E f \in Files \cup {None} : SelectFile(f)
    \/ handleUpload
    \/ \E r \in net, o \in Outcomes : handleUploadSettled(r, o)
    \/ handleSubmit
    \/ \E r \in net, u \in Users, t \in Tokens : handleSubmitResolved(r, u, t)
    \/ \E r \in net, o \in Outcomes : handleSubmitRejected(r, o)
    \/ Logout
    \/ RegisterUser
    \/ \E r \in net, o \in Outcomes : RegisterSettled(r, o)

Spec == Init /\ [][Next]_vars

-----------------------------------------------------------------------------
(* What the pages render.                                                  *)

\* a JavaScript string or null used as a condition
Truthy(x) == x \notin {"", None}

\* {loading && ...} {error && ...} {!loading && !error && ...} ;
\* App: loading ? 'Connecting' : error ? 'Offline' : 'Online'
Phase ==
    IF loading THEN "loading" ELSE IF Truthy(error) THEN "error" ELSE "success"

\* the message the fetch page p shows for a failed fetch
FetchMsg(p) == IF p = "app" THEN MsgApp ELSE MsgDashboard

\* empty / uploading / success / failed, from the status text
UploadPhase(s) ==
    CASE s = "" -> "empty"
      [] s = MsgUploading -> "uploading"
      [] s = MsgUploadOk -> "success"
      [] OTHER -> "failed"

\* the requests of the mounted page instance that are still in flight
Pending == {r \in net : r.live}

\* the requests this step sent, and the ones it settled for the mounted page
Sent == {r \in net' : r.id \notin {q.id : q \in net}}
SettledNow == {r \in net \ net' : r.live /\ r.id = ev'.id}

-----------------------------------------------------------------------------
(* C1: in every reachable state (login submissions, logout, reload) the    *)
(* session's token is present if and only if its user is present.         *)
C1_TokenIffUser == (token # None) <=> (user # None)

(* C2: every request sent through the gateway client (fetchTestData,       *)
(* loginUser, registerUser) carries no Authorization header when the       *)
(* session has no token at that moment, and exactly Bearer t when the      *)
(* session's token is t.                                                   *)
C2_GatewayHeader ==
    [][\A r \in Sent :
          r.op \in GatewayOps =>
              r.auth = IF token' = None THEN NoHeader ELSE Bearer(token')]_vars

C2_Witness ==
    \E r \in net :
        /\ r.op = "fetchTestData"
        /\ r.id = nextId - 1
        /\ token = "t2"
        /\ r.auth = Bearer("t2")

(* C3: the fetch of a mounted Dashboard (or App) shows loading, with no    *)
(* data and no message, as long as its request is pending; once the        *)
(* request has settled and its continuation is over, the phase is success  *)
(* with the resolved data when it resolved, and error with the page's      *)
(* fixed message when it rejected; a success or error phase of one         *)
(* instance never changes again.                                           *)
C3_State ==
    page \in FetchPages =>
        /\ calls.out = None =>
              Phase = "loading" /\ employees = << >> /\ ~Truthy(error)
        /\ (calls.out = "ok" /\ run = Idle) =>
              Phase = "success" /\ employees = calls.val
        /\ (calls.out \notin {None, "ok"} /\ run = Idle) =>
              Phase = "error" /\ error = FetchMsg(page) /\ employees = << >>

C3_Step ==
    (page \in FetchPages /\ ev'.op \notin {"navigate", "reload"}
        /\ Phase # "loading") =>
        Phase' = Phase

C3_FetchPhases == []C3_State /\ [][C3_Step]_vars

C3_Witness ==
    /\ page = "dashboard"
    /\ run = Idle
    /\ calls.out = "ok"
    /\ Phase = "success"
    /\ employees = << [id |-> 1] >>

(* C4: in every state of a mounted fetch page, the states between the two  *)
(* writes of one settlement included, the error message is set only in     *)
(* phase error and the data only in phase success.                         *)
C4_FieldsMatchPhase ==
    page \in FetchPages =>
        /\ Truthy(error) => Phase = "error"
        /\ employees # << >> => Phase = "success"

(* C5: the settlement of a fetch whose view was unmounted while it was     *)
(* pending calls none of that view's setters (employees, loading, error).  *)
C5_NoWriteAfterUnmount ==
    staleWrites \cap {"setEmployees", "setLoading", "setError"} = {}

(* C6: when an operation was started twice on one mounted Upload or Login  *)
(* instance and all its calls have settled, the view shows the outcome of  *)
(* the last call started.                                                  *)
C6_LastStartWins ==
    (calls.n >= 2 /\ Pending = {}) =>
        /\ page = "upload" => status = UploadStatus(calls.out)
        /\ page = "login" =>
              loginError = IF calls.out = "ok" THEN "" ELSE MsgInvalid

(* C7: a submit with a selected file sets the status to uploading at once  *)
(* (the first submit of a page from the empty status); the settlement of   *)
(* a submission of the mounted page then sets exactly one terminal status, *)
(* success if and only if the server answered 2xx, failed if it answered   *)
(* non-2xx or the transport failed; the first submission of a page is      *)
(* still at uploading when it settles: empty(file), uploading, terminal.   *)
C7_Step ==
    /\ \A r \in Sent :
          r.op = "upload" =>
              /\ file # None
              /\ UploadPhase(status') = "uploading"
              /\ calls.n = 0 => UploadPhase(status) = "empty"
    /\ \A r \in SettledNow :
          r.op = "upload" =>
              /\ UploadPhase(status') = "success" <=> ev'.out = "ok"
              /\ UploadPhase(status') = "failed" <=>
                    ev'.out \in {"non2xx", "network"}
              /\ calls.n = 1 => UploadPhase(status) = "uploading"

C7_UploadOrder == [][C7_Step]_vars

C7_Witness ==
    /\ page = "upload"
    /\ ev.op = "handleUploadSettled"
    /\ ev.out = "non2xx"
    /\ ev.id = calls.last
    /\ calls.n = 1
    /\ status = MsgUploadFailed

(* C8: a submit with no file selected changes neither the upload status,   *)
(* nor the file slot, nor the session, and sends no request, whatever the  *)
(* status is.                                                              *)
C8_SubmitWithoutFile ==
    [][(page = "upload" /\ file = None /\ ev'.op = "handleUpload") =>
          UNCHANGED << status, file, session, net, nextId >>]_vars

C8_Witness ==
    /\ page = "upload"
    /\ ev = Event("handleUpload", 0, None)
    /\ file = None
    /\ UploadPhase(status) = "uploading"

(* C9: when the authenticate call of a Login submission rejects, the       *)
(* session and the stored token stay as they were (login is not called),   *)
(* and the Login view, if still mounted, shows the invalid-credentials     *)
(* message.                                                                *)
C9_Step ==
    \A r \in net \ net' :
        (r.op = "loginUser" /\ r.id = ev'.id /\ ev'.out # "ok") =>
            /\ UNCHANGED session
            /\ r.live => loginError' = MsgInvalid

C9_RejectedLogin == [][C9_Step]_vars

C9_Witness ==
    /\ page = "login"
    /\ ev.op = "handleSubmitRejected"
    /\ loginError = MsgInvalid
    /\ ~isAuthenticated
    /\ user = None
    /\ store = None

(* C10: right after logout the session has neither user nor token, the     *)
(* store holds no token, isAuthenticated is false, and a gateway request   *)
(* sent next carries no Authorization header.                              *)
C10_State ==
    ev.op = "logout" =>
        /\ user = None
        /\ token = None
        /\ store = None
        /\ ~isAuthenticated

C10_Step ==
    ev.op = "logout" =>
        \A r \in Sent : r.op \in GatewayOps => r.auth = NoHeader

C10_AfterLogout == []C10_State /\ [][C10_Step]_vars

C10_Witness ==
    /\ ev.op = "logout"
    /\ user = None
    /\ store = None
    /\ nextId <= MaxReq

(* C11: right after a Login submission resolved with user u and token t,   *)
(* the session holds u and t: isAuthenticated is true and the current      *)
(* token is the token the server returned.                                 *)
C11_LoginSucceeded ==
    ev.op = "handleSubmitResolved" =>
        /\ user = ev.data[1]
        /\ token = ev.data[2]
        /\ token \in Tokens
        /\ isAuthenticated

C11_Witness ==
    /\ page = "login"
    /\ ev.op = "handleSubmitResolved"
    /\ ev.data = << "ann", "t2" >>
    /\ token = "t2"

(* C12: the request an Upload submit sends carries the session's token as  *)
(* a bearer Authorization header whenever the session holds one, and goes  *)
(* to the base address of the gateway client.                              *)
C12_UploadThroughGateway ==
    \A r \in net :
        (r.op = "upload" /\ ev.op = "handleUpload" /\ ev.id = r.id) =>
            /\ r.base = BaseURL
            /\ token # None => r.auth = Bearer(token)

(* C13: after a submission ended in success or failed, a further submit    *)
(* with no file re-selected in between sends no request and leaves the     *)
(* status as it is (the file of the finished submission is gone).          *)
C13_Step ==
    (/\ page = "upload"
     /\ ev.op = "handleUploadSettled"
     /\ ev.id = calls.last
     /\ UploadPhase(status) \in {"success", "failed"}
     /\ ev'.op = "handleUpload") =>
        /\ Sent = {}
        /\ status' = status

C13_TerminalUntilReselect == [][C13_Step]_vars

(* C14: a step sends exactly one request when it invokes a gateway         *)
(* operation, starts the fetch of a page (its mount) or submits an upload  *)
(* with a file, and no request otherwise: a settlement, failed or not,     *)
(* sends nothing again.                                                    *)
Starts ==
    IF \/ ev'.op \in {"handleSubmit", "registerUser"}
       \/ ev'.op = "handleUpload" /\ file # None
       \/ ev'.op \in {"navigate", "reload"} /\ page' \in FetchPages
      THEN 1
      ELSE 0

C14_Step ==
    /\ Cardinality(Sent) = Starts
    /\ nextId' = nextId + Starts

C14_OneCallPerInvocation == [][C14_Step]_vars

C14_Witness ==
    /\ page = "login"
    /\ ev.op = "handleSubmitRejected"
    /\ calls.n = 1
    /\ net = {}
    /\ nextId = calls.last + 1

(* C15: the failure of a gateway request (non-2xx or network) leaves the   *)
(* session and the stored token as they were, through the whole            *)
(* continuation, and reaches the caller, which shows its fixed message if  *)
(* it is still mounted.                                                    *)
C15_Step ==
    /\ \A r \in net \ net' :
          (r.id = ev'.id /\ r.op \in GatewayOps /\ ev'.out # "ok") =>
              /\ UNCHANGED session
              /\ (r.live /\ r.op = "fetchTestData") => error' = MsgDashboard
              /\ (r.live /\ r.op = "loginUser") => loginError' = MsgInvalid
    /\ ev'.op = "finally" => UNCHANGED session

C15_FailureKeepsSession == [][C15_Step]_vars

C15_Witness ==
    /\ page = "dashboard"
    /\ ev.op = "loadData"
    /\ ev.out = "non2xx"
    /\ error = MsgDashboard
    /\ user = "ann"
    /\ token = "t1"
    /\ store = "t1"

(* C16: a reload with a token in the store keeps that one token: the       *)
(* session's token is the stored token again, and the first request after  *)
(* the reload, the records fetch of a Dashboard mounting, carries it as    *)
(* bearer credential.                                                      *)
C16_Step ==
    (ev'.op = "reload" /\ store # None) =>
        /\ store' = store
        /\ token' = store
        /\ page = "dashboard" =>
              \E r \in Sent :
                  /\ net' = {r}
                  /\ r.op = "fetchTestData"
                  /\ r.auth = Bearer(store)

C16_ReloadRestoresToken == [][C16_Step]_vars

C16_Witness ==
    /\ ev.op = "reload"
    /\ page = "dashboard"
    /\ token = "t2"
    /\ store = "t2"
    /\ \E r \in net : r.auth = Bearer("t2")

(* C18: selecting a file while the status is success or failed resets the  *)
(* status to empty, so the old terminal message is no longer shown.        *)
C18_Step ==
    (/\ page = "upload"
     /\ UploadPhase(status) \in {"success", "failed"}
     /\ ev'.op = "selectFile"
     /\ file' # None) =>
        UploadPhase(status') = "empty"

C18_ReselectResets == [][C18_Step]_vars

(* C19: a request keeps the header it was built with for as long as it is  *)
(* in flight; a logout or a new login sends nothing and drops or alters    *)
(* no request in flight; and the settlement of a request whose page is     *)
(* still mounted is written to that page.                                  *)
PageOf(op) ==
    CASE op = "fetchTestData" -> "dashboard"
      [] op = "appGet" -> "app"
      [] op = "upload" -> "upload"
      [] op = "loginUser" -> "login"
      [] OTHER -> page

C19_Step ==
    /\ \A r \in net, q \in net' :
          q.id = r.id => (q.auth = r.auth /\ q.op = r.op /\ q.base = r.base)
    /\ ev'.op \in {"logout", "handleSubmitResolved"} =>
          /\ Sent = {}
          /\ \A r \in net : r.id # ev'.id => r \in net'
    /\ \A r \in SettledNow :
          /\ page = PageOf(r.op)
          /\ staleWrites' = staleWrites

C19_TokenReadOnce == [][C19_Step]_vars

C19_Witness ==
    /\ ev.op = "logout"
    /\ token = None
    /\ page = "dashboard"
    /\ \E r \in net :
          r.live /\ r.op = "fetchTestData" /\ r.auth = Bearer("t1")

(* C20: in every reachable state the stored token is the session's token   *)
(* (both absent, or the same value), so the header the interceptor builds  *)
(* from the store is the one of the session's current token.               *)
C20_StoreIsSessionToken ==
    /\ store = token
    /\ Interceptor(store) =
          IF token = None THEN NoHeader ELSE Bearer(token)

C20_Witness ==
    /\ ev.op = "reload"
    /\ store = "t2"
    /\ token = "t2"

-----------------------------------------------------------------------------
(* The rows of the two tables.  A JavaScript value is a record: its kind,  *)
(* its text when it is a string, its value when it is a number.  A record  *)
(* of res.data is a function from the fields it has to their values.       *)

Undefined == [k |-> "undefined", s |-> "", n |-> 0]
Null == [k |-> "null", s |-> "", n |-> 0]
Num(n) == [k |-> "number", s |-> "", n |-> n]
Str(s) == [k |-> "string", s |-> s, n |-> 0]

\* emp.f
Get(emp, f) == IF f \in DOMAIN emp THEN emp[f] ELSE Undefined

Nullish(v) == v.k \in {"undefined", "null"}
Falsy(v) ==
    \/ Nullish(v)
    \/ v.k = "number" /\ v.n = 0
    \/ v.k = "string" /\ v.s = ""

\* v || w  and  v ?? w
Or(v, w) == IF Falsy(v) THEN w ELSE v
Coalesce(v, w) == IF Nullish(v) THEN w ELSE v

\* {v} as a child of an element: null and undefined render nothing
Text(v) ==
    CASE v.k = "number" -> ToString(v.n)
      [] v.k = "string" -> v.s
      [] OTHER -> ""

\* String(v)
String(v) ==
    CASE v.k = "number" -> ToString(v.n)
      [] v.k = "string" -> v.s
      [] OTHER -> v.k

RECURSIVE padStart(_, _, _)
padStart(str, len, fill) ==
    IF Len(str) >= len THEN str ELSE padStart(fill \o str, len, fill)

\* digits in groups of three (the en-US locale)
RECURSIVE Grouped(_)
Grouped(n) ==
    IF n < 1000
      THEN ToString(n)
      ELSE Grouped(n \div 1000) \o "," \o padStart(ToString(n % 1000), 3, "0")

\* v.toLocaleString()
toLocaleString(v) == IF v.k = "number" THEN Grouped(v.n) ELSE v.s

\* Dashboard: <td>{emp.id}</td> <td>{emp.name || 'N/A'}</td> ...
DashboardRow(emp) ==
    [id |-> Text(Get(emp, "id")),
     cells |->
        [name |-> Text(Or(Get(emp, "name"), Str("N/A"))),
         department |-> Text(Or(Get(emp, "department"), Str("N/A"))),
         satisfaction_score |->
             Text(Coalesce(Get(emp, "satisfaction_score"), Str("N/A")))]]

\* App: #{String(emp.employee_id).padStart(4, '0')}, {emp.department},
\* {emp.job_role}, ${(emp.monthly_income ?? emp.MonthlyIncome ?? 0)...}
AppRow(emp) ==
    [id |-> "#" \o padStart(String(Get(emp, "employee_id")), 4, "0"),
     cells |->
        [department |-> Text(Get(emp, "department")),
         job_role |-> Text(Get(emp, "job_role")),
         monthly_income |->
             "$" \o toLocaleString(
                 Coalesce(Coalesce(Get(emp, "monthly_income"),
                                   Get(emp, "MonthlyIncome")), Num(0)))]]

\* the rows of the table of the mounted fetch page
Rows ==
    [i \in DOMAIN employees |->
        IF page = "app" THEN AppRow(employees[i])
                        ELSE DashboardRow(employees[i])]

\* the values a field of a record of the backend takes in the model
FieldValues(f) ==
    CASE f \in {"id", "employee_id"} -> {Num(2)}
      [] f = "name" -> {Str("Ann")}
      [] f = "department" -> {Str("Sales"), Null}
      [] f = "satisfaction_score" -> {Num(0), Num(4)}
      [] f = "job_role" -> {Str("Manager")}
      [] OTHER -> {Num(5000)}

\* the records with identifier idf and any of the display fields opt
RecordsOf(idf, opt) ==
    UNION { { e \in [{idf} \cup D -> UNION {FieldValues(f) : f \in {idf} \cup D}] :
                \A f \in DOMAIN e : e[f] \in FieldValues(f) } :
            D \in SUBSET opt }

\* the two naming schemes of the records
Records ==
    RecordsOf("id", {"name", "department", "satisfaction_score"})
      \cup RecordsOf("employee_id",
                     {"department", "job_role", "monthly_income", "MonthlyIncome"})

\* the client reduced to the two tables: a fetch page is mounted and its
\* fetch resolves with one record
NextRows ==
    \/ \E p \in FetchPages : Navigate(p)
    \/ \E r \in net, e \in Records : loadData(r, "ok", << e >>)
    \/ \E r \in net, e \in Records : AppEffect(r, "ok", << e >>)
    \/ Finally

SpecRows == Init /\ [][NextRows]_vars

\* the field is there and is not null
Present(emp, f) == ~ Nullish(Get(emp, f))

\* the identifier of a record, under either naming scheme
Identifier(emp) ==
    IF Present(emp, "id") THEN Get(emp, "id") ELSE Get(emp, "employee_id")

\* what the cell of display field f is to show
Shown(emp, f) ==
    CASE f = "monthly_income" ->
            IF Present(emp, "monthly_income")
              THEN "$" \o toLocaleString(Get(emp, "monthly_income"))
              ELSE IF Present(emp, "MonthlyIncome")
                THEN "$" \o toLocaleString(Get(emp, "MonthlyIncome"))
                ELSE "N/A"
      [] OTHER -> IF Present(emp, f) THEN Text(Get(emp, f)) ELSE "N/A"

(* C17: once the fetch has succeeded, the row of every record shows the    *)
(* record's identifier and, in the cell of each display field, the value   *)
(* of the field when the record has it and 'N/A' when it has not, under    *)
(* either naming scheme of the records.                                    *)
C17_RowShowsValueOrPlaceholder ==
    (page \in FetchPages /\ Phase = "success") =>
        \A i \in DOMAIN employees :
            LET emp == employees[i]
                id == Text(Identifier(emp))
            IN  /\ Rows[i].id \in {id, "#" \o padStart(id, 4, "0")}
                /\ \A f \in DOMAIN Rows[i].cells :
                      Rows[i].cells[f] = Shown(emp, f)

-----------------------------------------------------------------------------
\* the submissions of the mounted Login view that are still in flight
LoginPending == {r \in Pending : r.op = "loginUser"}

(* C21: a Login submission empties the error message and then sends the    *)
(* authenticate call; the message becomes non-empty only in the step that  *)
(* settles a rejected authenticate of the mounted view, and then it is the *)
(* invalid-credentials message; a resolved authenticate leaves the message *)
(* as it is.  So while the only submission since mount is pending, and     *)
(* after it has succeeded, the message is empty.                           *)
C21_Step ==
    /\ ev'.op = "handleSubmit" =>
          /\ loginError' = ""
          /\ \E r \in Sent : r.op = "loginUser" /\ r.id = ev'.id
    /\ (loginError' # loginError /\ Truthy(loginError')) =>
          /\ ev'.op = "handleSubmitRejected"
          /\ loginError' = MsgInvalid
          /\ \E r \in SettledNow : r.op = "loginUser"
    /\ ev'.op = "handleSubmitResolved" => loginError' = loginError
    /\ (page' = "login" /\ calls'.n = 1) =>
          /\ LoginPending' # {} => loginError' = ""
          /\ calls'.out = "ok" => loginError' = ""

C21_ErrorClearedOnSubmit == [][C21_Step]_vars

\* the second submission of a view whose first one was rejected is pending
C21_Witness ==
    /\ page = "login"
    /\ ev.op = "handleSubmit"
    /\ calls.n = 2
    /\ Cardinality(LoginPending) = 1
    /\ net = LoginPending
    /\ store = None
    /\ loginError = ""

=============================================================================
